---- MODULE Spec2Model ----
(***************************************************************************)
(* QueryBuilder (src/src/query/QueryBuilder.js): the constructors and the  *)
(* type-narrowing accessors of concrete query nodes, the four shared empty *)
(* singletons and the client fragment hash counter.                        *)
(*                                                                         *)
(* JavaScript values are records [t, s, n]: t is the type tag, s the       *)
(* payload of a string, n the payload of a number or boolean or the        *)
(* address of an object.  Objects and arrays live in a heap, a function    *)
(* from addresses to [class, props, elems]; two references are the same    *)
(* object exactly when their addresses are equal.                          *)
(***************************************************************************)
EXTENDS Integers, Sequences, FiniteSets, TLC

VARIABLES
  heap,                 \* address -> object: every live object
  clientFragmentCount,  \* the module-level counter of createClientFragmentHash
  held,                 \* node address -> the call that made it: nodes the caller keeps
  ret,                  \* the last call: method, arguments, returned value, error thrown
  fragmentCalls,        \* history: how many times createFragment was called
  hashes                \* history: the hash of every fragment made, in order

vars == <<heap, clientFragmentCount, held, ret, fragmentCalls, hashes>>

---------------------------------------------------------------------------
(* JavaScript values and operators *)

Undefined == [t |-> "undefined", s |-> "", n |-> 0]
Null == [t |-> "null", s |-> "", n |-> 0]
Bool(b) == [t |-> "boolean", s |-> "", n |-> IF b THEN 1 ELSE 0]
Num(k) == [t |-> "number", s |-> "", n |-> k]
Str(x) == [t |-> "string", s |-> x, n |-> 0]
Ref(a) == [t |-> "object", s |-> "", n |-> a]

\* typeof v: null is reported as an object
typeof(v) == IF v.t = "null" THEN "object" ELSE v.t

\* the truthiness of v
ToBoolean(v) ==
  CASE v.t = "undefined" -> FALSE
    [] v.t = "null" -> FALSE
    [] v.t = "boolean" -> v.n = 1
    [] v.t = "number" -> v.n # 0
    [] v.t = "string" -> v.s # ""
    [] OTHER -> TRUE

\* a || b
Or(a, b) == IF ToBoolean(a) THEN a ELSE b

\* !v
Not(v) == Bool(~ToBoolean(v))

\* v == null
LooseEqualsNull(v) == v.t \in {"undefined", "null"}

NoProps == [k \in {} |-> Undefined]
Object(props) == [class |-> "Object", props |-> props, elems |-> <<>>]
Array(elems) == [class |-> "Array", props |-> NoProps, elems |-> elems]

\* the completion of an expression that throws the error e
Thrown(e) == [t |-> "throw", s |-> e, n |-> 0]
IsThrown(v) == v.t = "throw"

\* v.key: a TypeError when v is null or undefined, which have no properties;
\* undefined for a missing key and for any other primitive
Prop(h, v, key) ==
  IF LooseEqualsNull(v) THEN Thrown("TypeError")
  ELSE IF v.t = "object" /\ key \in DOMAIN h[v.n].props
       THEN h[v.n].props[key]
       ELSE Undefined

\* the smallest address not in use
Fresh(h) == CHOOSE a \in 1..(Cardinality(DOMAIN h) + 1) :
              /\ a \notin DOMAIN h
              /\ \A b \in 1..(a - 1) : b \in DOMAIN h

\* allocation of one object
New(h, obj) ==
  LET a == Fresh(h)
  IN [heap |-> (a :> obj) @@ h, ref |-> Ref(a)]

\* the outcome of a call: the state after it, and the value or the error
Return(s, h, v) == [heap |-> h, count |-> s.count, value |-> v, error |-> ""]
Throw(s, h, e) == [heap |-> h, count |-> s.count, value |-> Undefined, error |-> e]

---------------------------------------------------------------------------
(* The module's constants *)

EMPTY_CALLS == 1
EMPTY_CHILDREN == 2
EMPTY_DIRECTIVES == 3
EMPTY_METADATA == 4

Singletons == {EMPTY_CALLS, EMPTY_CHILDREN, EMPTY_DIRECTIVES, EMPTY_METADATA}

BaseHeap ==
  (EMPTY_CALLS :> Array(<<>>)) @@ (EMPTY_CHILDREN :> Array(<<>>)) @@
  (EMPTY_DIRECTIVES :> Array(<<>>)) @@ (EMPTY_METADATA :> Object(NoProps))

\* RelayNodeInterface, the root-call naming collaborator
NODE == "node"
ID == "id"
isNodeRootCall(fieldName) == fieldName = Str(NODE)

\* base62: the digits 0-9, a-z, A-Z
BASE62 == << "0", "1", "2", "3", "4", "5", "6", "7", "8", "9",
             "a", "b", "c", "d", "e", "f", "g", "h", "i", "j", "k", "l", "m",
             "n", "o", "p", "q", "r", "s", "t", "u", "v", "w", "x", "y", "z",
             "A", "B", "C", "D", "E", "F", "G", "H", "I", "J", "K", "L", "M",
             "N", "O", "P", "Q", "R", "S", "T", "U", "V", "W", "X", "Y", "Z" >>

RECURSIVE base62(_)
base62(number) ==
  IF number < Len(BASE62)
  THEN BASE62[number + 1]
  ELSE base62(number \div Len(BASE62)) \o BASE62[(number % Len(BASE62)) + 1]

---------------------------------------------------------------------------
(* The factory.  Every function takes the state s = [heap, count] and its  *)
(* JavaScript arguments, and yields [heap, count, value, error].           *)

\* let clientFragmentCount = 0
InitialFragmentCount == 0

\* faulty variant: the counter is read and never incremented
createClientFragmentHashNoIncrement(count) ==
  [value |-> Str("_" \o base62(count)), count |-> count]

\* faulty variant: the counter is incremented before it is read
createClientFragmentHashPreIncrement(count) ==
  [value |-> Str("_" \o base62(count + 1)), count |-> count + 1]

\* '_' + base62(clientFragmentCount++): the hash, and the counter after it
createClientFragmentHash(count) ==
  [value |-> Str("_" \o base62(count)), count |-> count + 1]

\* faulty variant: any object carrying a kind string passes
isAnyConcreteKind(h, node, kind) ==
  /\ typeof(node) = "object"
  /\ node # Null
  /\ Prop(h, node, "kind").t = "string"

isConcreteKind(h, node, kind) ==
  /\ typeof(node) = "object"
  /\ node # Null
  /\ Prop(h, node, "kind") = Str(kind)

createBatchCallVariable(s, sourceQueryID, jsonPath) ==
  LET node == New(s.heap, Object([kind |-> Str("BatchCallVariable"),
                                  sourceQueryID |-> sourceQueryID,
                                  jsonPath |-> jsonPath]))
  IN Return(s, node.heap, node.ref)

createCall(s, name, value, type) ==
  LET metadata == New(s.heap, Object([type |-> Or(type, Null)]))
      node == New(metadata.heap, Object([kind |-> Str("Call"),
                                         name |-> name,
                                         metadata |-> metadata.ref,
                                         value |-> value]))
  IN Return(s, node.heap, node.ref)

createCallValue(s, callValue) ==
  LET node == New(s.heap, Object([kind |-> Str("CallValue"),
                                  callValue |-> callValue]))
  IN Return(s, node.heap, node.ref)

createCallVariable(s, callVariableName) ==
  LET node == New(s.heap, Object([kind |-> Str("CallVariable"),
                                  callVariableName |-> callVariableName]))
  IN Return(s, node.heap, node.ref)

\* faulty variant: isPlural is copied without the coercion to a boolean
fieldMetadataUncoerced(h, partialMetadata) ==
  [inferredRootCallName |-> Prop(h, partialMetadata, "inferredRootCallName"),
   inferredPrimaryKey |-> Prop(h, partialMetadata, "inferredPrimaryKey"),
   isConnection |-> Not(Not(Prop(h, partialMetadata, "isConnection"))),
   isFindable |-> Not(Not(Prop(h, partialMetadata, "isFindable"))),
   isGenerated |-> Not(Not(Prop(h, partialMetadata, "isGenerated"))),
   isPlural |-> Prop(h, partialMetadata, "isPlural"),
   isRequisite |-> Not(Not(Prop(h, partialMetadata, "isRequisite"))),
   isAbstract |-> Not(Not(Prop(h, partialMetadata, "isAbstract")))]

\* the metadata literal of createField
fieldMetadata(h, partialMetadata) ==
  [inferredRootCallName |-> Prop(h, partialMetadata, "inferredRootCallName"),
   inferredPrimaryKey |-> Prop(h, partialMetadata, "inferredPrimaryKey"),
   isConnection |-> Not(Not(Prop(h, partialMetadata, "isConnection"))),
   isFindable |-> Not(Not(Prop(h, partialMetadata, "isFindable"))),
   isGenerated |-> Not(Not(Prop(h, partialMetadata, "isGenerated"))),
   isPlural |-> Not(Not(Prop(h, partialMetadata, "isPlural"))),
   isRequisite |-> Not(Not(Prop(h, partialMetadata, "isRequisite"))),
   isAbstract |-> Not(Not(Prop(h, partialMetadata, "isAbstract")))]

\* partial.calls || EMPTY_CALLS, and likewise for the other two slots
callsOrEmpty(h, partial) == Or(Prop(h, partial, "calls"), Ref(EMPTY_CALLS))
\* faulty variant: missing children default to the empty calls singleton
childrenOrEmptyCalls(h, partial) == Or(Prop(h, partial, "children"), Ref(EMPTY_CALLS))

childrenOrEmpty(h, partial) == Or(Prop(h, partial, "children"), Ref(EMPTY_CHILDREN))
directivesOrEmpty(h, partial) ==
  Or(Prop(h, partial, "directives"), Ref(EMPTY_DIRECTIVES))

createField(s, partialField) ==
  IF IsThrown(Prop(s.heap, partialField, "metadata"))
  THEN Throw(s, s.heap, Prop(s.heap, partialField, "metadata").s) ELSE
  LET h == s.heap
      partialMetadata == Or(Prop(h, partialField, "metadata"), Ref(EMPTY_METADATA))
      metadata == New(h, Object(fieldMetadata(h, partialMetadata)))
      node == New(metadata.heap,
                  Object([alias |-> Prop(h, partialField, "alias"),
                          calls |-> callsOrEmpty(h, partialField),
                          children |-> childrenOrEmpty(h, partialField),
                          directives |-> directivesOrEmpty(h, partialField),
                          fieldName |-> Prop(h, partialField, "fieldName"),
                          kind |-> Str("Field"),
                          metadata |-> metadata.ref,
                          type |-> Prop(h, partialField, "type")]))
  IN Return(s, node.heap, node.ref)

\* the metadata literal of createFragment
fragmentMetadata(h, metadata) ==
  [isAbstract |-> Not(Not(Prop(h, metadata, "isAbstract"))),
   plural |-> Not(Not(Prop(h, metadata, "plural")))]

createFragment(s, partialFragment) ==
  IF IsThrown(Prop(s.heap, partialFragment, "metadata"))
  THEN Throw(s, s.heap, Prop(s.heap, partialFragment, "metadata").s) ELSE
  LET h == s.heap
      metadata == Or(Prop(h, partialFragment, "metadata"), Ref(EMPTY_METADATA))
      hash == createClientFragmentHash(s.count)
      md == New(h, Object(fragmentMetadata(h, metadata)))
      node == New(md.heap,
                  Object([children |-> childrenOrEmpty(h, partialFragment),
                          directives |-> directivesOrEmpty(h, partialFragment),
                          hash |-> hash.value,
                          kind |-> Str("Fragment"),
                          metadata |-> md.ref,
                          name |-> Prop(h, partialFragment, "name"),
                          type |-> Prop(h, partialFragment, "type")]))
  IN [heap |-> node.heap, count |-> hash.count, value |-> node.ref, error |-> ""]

createFragmentReference(s, fragment) ==
  LET node == New(s.heap, Object([kind |-> Str("FragmentReference"),
                                  fragment |-> fragment]))
  IN Return(s, node.heap, node.ref)

\* faulty variant: a missing inputType is defaulted to null
operationMetadataDefaulted(h, metadata) ==
  [inputType |-> Or(Prop(h, metadata, "inputType"), Null)]

\* the metadata literal of createMutation and of createSubscription
operationMetadata(h, metadata) ==
  [inputType |-> Prop(h, metadata, "inputType")]

createMutation(s, partialMutation) ==
  IF IsThrown(Prop(s.heap, partialMutation, "metadata"))
  THEN Throw(s, s.heap, Prop(s.heap, partialMutation, "metadata").s) ELSE
  LET h == s.heap
      metadata == Or(Prop(h, partialMutation, "metadata"), Ref(EMPTY_METADATA))
      md == New(h, Object(operationMetadata(h, metadata)))
      node == New(md.heap,
                  Object([calls |-> callsOrEmpty(h, partialMutation),
                          children |-> childrenOrEmpty(h, partialMutation),
                          directives |-> directivesOrEmpty(h, partialMutation),
                          kind |-> Str("Mutation"),
                          metadata |-> md.ref,
                          name |-> Prop(h, partialMutation, "name"),
                          responseType |-> Prop(h, partialMutation, "responseType")]))
  IN Return(s, node.heap, node.ref)

createSubscription(s, partialSubscription) ==
  IF IsThrown(Prop(s.heap, partialSubscription, "metadata"))
  THEN Throw(s, s.heap, Prop(s.heap, partialSubscription, "metadata").s) ELSE
  LET h == s.heap
      metadata == Or(Prop(h, partialSubscription, "metadata"), Ref(EMPTY_METADATA))
      md == New(h, Object(operationMetadata(h, metadata)))
      node == New(md.heap,
                  Object([calls |-> callsOrEmpty(h, partialSubscription),
                          children |-> childrenOrEmpty(h, partialSubscription),
                          directives |-> directivesOrEmpty(h, partialSubscription),
                          kind |-> Str("Subscription"),
                          metadata |-> md.ref,
                          name |-> Prop(h, partialSubscription, "name"),
                          responseType |->
                            Prop(h, partialSubscription, "responseType")]))
  IN Return(s, node.heap, node.ref)

\* faulty variant: the root call's name wins over the name given in metadata
queryRootCallNameFirst(h, partialQuery, metadata) ==
  IF isNodeRootCall(Prop(h, partialQuery, "fieldName"))
  THEN Str(ID)
  ELSE Prop(h, metadata, "identifyingArgName")

\* the identifying argument name createQuery settles on
queryIdentifyingArgName(h, partialQuery, metadata) ==
  IF /\ LooseEqualsNull(Prop(h, metadata, "identifyingArgName"))
     /\ isNodeRootCall(Prop(h, partialQuery, "fieldName"))
  THEN Str(ID)
  ELSE Prop(h, metadata, "identifyingArgName")

\* faulty variant: the value is tested for truthiness, not against null
queryArgumentTruthy(identifyingArgName, identifyingArgValue) ==
  ToBoolean(identifyingArgValue)

\* the check of invariant(): whether createQuery goes on for this name and value
queryArgumentAccepted(identifyingArgName, identifyingArgValue) ==
  ~LooseEqualsNull(identifyingArgValue)

\* faulty variant: the metadata flag is ignored
queryIsDeferredExplicitOnly(h, partialQuery, metadata) ==
  Not(Not(Prop(h, partialQuery, "isDeferred")))

\* isDeferred of the node createQuery returns
queryIsDeferred(h, partialQuery, metadata) ==
  Not(Not(Or(Prop(h, partialQuery, "isDeferred"), Prop(h, metadata, "isDeferred"))))

\* the metadata literal of createQuery
queryMetadata(h, metadata, identifyingArgName) ==
  [identifyingArgName |-> identifyingArgName,
   identifyingArgType |-> Prop(h, metadata, "identifyingArgType"),
   isAbstract |-> Not(Not(Prop(h, metadata, "isAbstract"))),
   isPlural |-> Not(Not(Prop(h, metadata, "isPlural")))]

\* the object createQuery returns, given its calls array
queryNode(s, h, partialQuery, metadata, identifyingArgName, calls) ==
  LET md == New(h, Object(queryMetadata(h, metadata, identifyingArgName)))
      node == New(md.heap,
                  Object([calls |-> calls,
                          children |-> childrenOrEmpty(h, partialQuery),
                          directives |-> directivesOrEmpty(h, partialQuery),
                          fieldName |-> Prop(h, partialQuery, "fieldName"),
                          isDeferred |-> queryIsDeferred(h, partialQuery, metadata),
                          kind |-> Str("Query"),
                          metadata |-> md.ref,
                          name |-> Prop(h, partialQuery, "name"),
                          type |-> Prop(h, partialQuery, "type")]))
  IN Return(s, node.heap, node.ref)

createQuery(s, partialQuery) ==
  IF IsThrown(Prop(s.heap, partialQuery, "metadata"))
  THEN Throw(s, s.heap, Prop(s.heap, partialQuery, "metadata").s) ELSE
  LET metadata == Or(Prop(s.heap, partialQuery, "metadata"), Ref(EMPTY_METADATA))
      calls == New(s.heap, Array(<<>>))
      h == calls.heap
      identifyingArgName == queryIdentifyingArgName(h, partialQuery, metadata)
      identifyingArgValue == Prop(h, partialQuery, "identifyingArgValue")
  IN IF ~LooseEqualsNull(identifyingArgName)
     THEN IF ~queryArgumentAccepted(identifyingArgName, identifyingArgValue)
          THEN Throw(s, h, "Invariant Violation")
          ELSE LET call == createCall([heap |-> h, count |-> s.count],
                                      identifyingArgName, identifyingArgValue,
                                      Undefined)
                   array == New(call.heap, Array(<<call.value>>))
               IN queryNode(s, array.heap, partialQuery, metadata,
                            identifyingArgName, array.ref)
     ELSE queryNode(s, h, partialQuery, metadata, identifyingArgName, calls.ref)

getBatchCallVariable(s, node) ==
  IF isConcreteKind(s.heap, node, "BatchCallVariable")
  THEN Return(s, s.heap, node) ELSE Return(s, s.heap, Undefined)

getCallVariable(s, node) ==
  IF isConcreteKind(s.heap, node, "CallVariable")
  THEN Return(s, s.heap, node) ELSE Return(s, s.heap, Undefined)

getField(s, node) ==
  IF isConcreteKind(s.heap, node, "Field")
  THEN Return(s, s.heap, node) ELSE Return(s, s.heap, Undefined)

getFragment(s, node) ==
  IF isConcreteKind(s.heap, node, "Fragment")
  THEN Return(s, s.heap, node) ELSE Return(s, s.heap, Undefined)

getFragmentReference(s, node) ==
  IF isConcreteKind(s.heap, node, "FragmentReference")
  THEN Return(s, s.heap, node) ELSE Return(s, s.heap, Undefined)

getMutation(s, node) ==
  IF isConcreteKind(s.heap, node, "Mutation")
  THEN Return(s, s.heap, node) ELSE Return(s, s.heap, Undefined)

\* faulty variant: getQuery tests for the kind of its neighbour
getQueryAsMutation(s, node) ==
  IF isConcreteKind(s.heap, node, "Mutation")
  THEN Return(s, s.heap, node) ELSE Return(s, s.heap, Undefined)

getQuery(s, node) ==
  IF isConcreteKind(s.heap, node, "Query")
  THEN Return(s, s.heap, node) ELSE Return(s, s.heap, Undefined)

getSubscription(s, node) ==
  IF isConcreteKind(s.heap, node, "Subscription")
  THEN Return(s, s.heap, node) ELSE Return(s, s.heap, Undefined)

\* the methods of the exported QueryBuilder object
QueryBuilder ==
  {"createBatchCallVariable", "createCall", "createCallValue",
   "createCallVariable", "createField", "createFragment",
   "createFragmentReference", "createMutation", "createQuery",
   "createSubscription", "getBatchCallVariable", "getCallVariable", "getField",
   "getFragment", "getFragmentReference", "getMutation", "getQuery",
   "getSubscription"}

\* QueryBuilder[method](node) for an accessor name: calling a property that
\* is not there is a TypeError
Invoke(s, method, node) ==
  CASE method \notin QueryBuilder -> Throw(s, s.heap, "TypeError")
    [] method = "getBatchCallVariable" -> getBatchCallVariable(s, node)
    [] method = "getCallVariable" -> getCallVariable(s, node)
    [] method = "getField" -> getField(s, node)
    [] method = "getFragment" -> getFragment(s, node)
    [] method = "getFragmentReference" -> getFragmentReference(s, node)
    [] method = "getMutation" -> getMutation(s, node)
    [] method = "getQuery" -> getQuery(s, node)
    [] method = "getSubscription" -> getSubscription(s, node)

---------------------------------------------------------------------------
(* The caller: it builds the arguments, calls one method of QueryBuilder,  *)
(* keeps the result or lets it go.  Objects the caller no longer reaches   *)
(* are reclaimed before the next call.                                     *)

\* the addresses an object refers to
RefsOf(obj) ==
  {obj.props[k].n : k \in {x \in DOMAIN obj.props : obj.props[x].t = "object"}}
    \cup {obj.elems[i].n : i \in {x \in DOMAIN obj.elems : obj.elems[x].t = "object"}}

RECURSIVE Reach(_, _)
Reach(h, S) ==
  LET T == S \cup UNION {RefsOf(h[a]) : a \in S}
  IN IF T = S THEN S ELSE Reach(h, T)

\* the heap with everything unreachable from the roots and the singletons reclaimed
Collect(h, roots) == [a \in Reach(h, roots \cup Singletons) |-> h[a]]

\* the addresses among a call's arguments
ArgRefs(args) == {args[i].n : i \in {x \in DOMAIN args : args[x].t = "object"}}

\* what the caller still reaches: the nodes it kept and the arguments they were made from
Roots == DOMAIN held \cup UNION {ArgRefs(held[a].args) : a \in DOMAIN held}

\* An argument as the caller writes it: a value it has, a new array or a new object
Val(v) == [given |-> "value", value |-> v, props |-> NoProps, elems |-> <<>>]
Arr(elems) == [given |-> "array", value |-> Undefined, props |-> NoProps, elems |-> elems]
Obj(props) == [given |-> "object", value |-> Undefined, props |-> props, elems |-> <<>>]

\* the value of a written argument, allocated when it is a literal
Given(h, opt) ==
  CASE opt.given = "array" -> New(h, Array(opt.elems))
    [] opt.given = "object" -> New(h, Object(opt.props))
    [] OTHER -> [heap |-> h, ref |-> opt.value]

\* one key of an object literal; a key whose value is undefined is left out
Key(k, v) == IF v = Undefined THEN NoProps ELSE (k :> v)

\* the partial description { ...scalars, metadata, calls, children, directives }
Partial(h, scalars, metadata, calls, children, directives) ==
  LET m == Given(h, metadata)
      c == Given(m.heap, calls)
      ch == Given(c.heap, children)
      d == Given(ch.heap, directives)
  IN New(d.heap, Object(scalars @@ Key("metadata", m.ref) @@ Key("calls", c.ref)
                          @@ Key("children", ch.ref) @@ Key("directives", d.ref)))

NoCall == [method |-> "", args |-> <<>>, value |-> Undefined, error |-> ""]

\* the state a call starts from, the caller's arguments on heap h
State(h) == [heap |-> h, count |-> clientFragmentCount]

\* the step of one call QueryBuilder[method](...args) whose outcome is r
Call(method, args, r, keep) ==
  LET made == [method |-> method, args |-> args, value |-> r.value, error |-> r.error]
  IN /\ heap' = r.heap
     /\ clientFragmentCount' = r.count
     /\ ret' = made
     /\ held' = IF keep /\ r.error = "" /\ r.value.t = "object"
                THEN (r.value.n :> made) @@ held
                ELSE held
     /\ fragmentCalls' = IF method = "createFragment"
                         THEN fragmentCalls + 1 ELSE fragmentCalls
     /\ hashes' = IF method = "createFragment" /\ r.error = ""
                  THEN Append(hashes, Prop(r.heap, r.value, "hash").s)
                  ELSE hashes

Init ==
  /\ heap = BaseHeap
  /\ clientFragmentCount = InitialFragmentCount
  /\ held = <<>>
  /\ ret = NoCall
  /\ fragmentCalls = 0
  /\ hashes = <<>>

---------------------------------------------------------------------------
(* Bounds and the arguments the caller draws *)

MaxFragments == 2   \* createFragment calls in Spec and SpecGet
MaxHeld == 2        \* nodes the caller keeps in SpecShare
MaxHashes == 64     \* createFragment calls in SpecHash

Kinds ==
  {"Field", "Fragment", "FragmentReference", "Query", "Mutation", "Subscription",
   "Call", "CallValue", "CallVariable", "BatchCallVariable"}

Omitted == Val(Undefined)

\* values given for a boolean flag; a missing flag is the object without the key
FlagValues ==
  {Bool(TRUE), Bool(FALSE), Null, Num(0), Num(1), Str(""), Str("yes")}

\* metadata objects over the flags fs: none given, all given one value, one given true
FlagObjects(fs) ==
  {Obj(NoProps)} \cup {Obj([f \in fs |-> v]) : v \in FlagValues}
                 \cup {Obj(f :> Bool(TRUE)) : f \in fs}

\* what is given for calls, children and directives: one slot at a time, or all
SlotGiven == {Val(Null), Arr(<<>>), Arr(<<Null>>)}
SlotInputs ==
  {<<Omitted, Omitted, Omitted>>, <<Arr(<<>>), Arr(<<>>), Arr(<<>>)>>}
    \cup {<<g, Omitted, Omitted>> : g \in SlotGiven}
    \cup {<<Omitted, g, Omitted>> : g \in SlotGiven}
    \cup {<<Omitted, Omitted, g>> : g \in SlotGiven}

FieldFlags ==
  {"isConnection", "isFindable", "isGenerated", "isPlural", "isRequisite",
   "isAbstract"}

FieldMetadataInputs ==
  {Omitted, Val(Null),
   Obj([inferredRootCallName |-> Str("node"), inferredPrimaryKey |-> Str("id")]),
   Obj([inferredRootCallName |-> Null, inferredPrimaryKey |-> Null])}
    \cup FlagObjects(FieldFlags)

FieldInput(alias, metadata, slots) ==
  [fieldName |-> Str("actor"), type |-> Str("User"), alias |-> alias,
   metadata |-> metadata, calls |-> slots[1], children |-> slots[2],
   directives |-> slots[3]]

FieldInputs ==
  {FieldInput(Undefined, m, <<Omitted, Omitted, Omitted>>) : m \in FieldMetadataInputs}
    \cup {FieldInput(Undefined, Omitted, sl) : sl \in SlotInputs}
    \cup {FieldInput(Str("me"), Omitted, <<Omitted, Omitted, Omitted>>)}

FragmentMetadataInputs ==
  {Omitted, Val(Null)} \cup FlagObjects({"isAbstract", "plural"})

FragmentInput(metadata, slots) ==
  [name |-> Str("Foo"), type |-> Str("Node"), metadata |-> metadata,
   children |-> slots[2], directives |-> slots[3]]

FragmentInputs ==
  {FragmentInput(m, <<Omitted, Omitted, Omitted>>) : m \in FragmentMetadataInputs}
    \cup {FragmentInput(Omitted, sl) : sl \in SlotInputs}

OperationMetadataInputs ==
  {Omitted, Val(Null), Obj(NoProps), Obj([inputType |-> Str("FooInput")]),
   Obj([inputType |-> Null])}

OperationInput(metadata, slots) ==
  [name |-> Str("FooMutation"), responseType |-> Str("FooPayload"),
   metadata |-> metadata, calls |-> slots[1], children |-> slots[2],
   directives |-> slots[3]]

OperationInputs ==
  {OperationInput(m, <<Omitted, Omitted, Omitted>>) : m \in OperationMetadataInputs}
    \cup {OperationInput(Omitted, sl) : sl \in SlotInputs}

\* field names: the root call and a field that is none
FieldNames == {Str(NODE), Str("viewer")}

\* identifying argument values: missing, null, and values that are neither
ArgValues == {Undefined, Null, Str("abc123"), Str(""), Num(0)}

QueryNameMetadataInputs ==
  {Omitted, Val(Null), Obj(NoProps)}
    \cup {Obj([identifyingArgName |-> v]) :
            v \in {Null, Str(""), Str(ID), Str("username")}}

QueryFlagMetadataInputs ==
  FlagObjects({"isAbstract", "isPlural"})
    \cup {Obj([identifyingArgName |-> Str("username"), identifyingArgType |-> Str("String")]),
          Obj([identifyingArgType |-> Str("ID")]),
          Obj([identifyingArgType |-> Null])}

QueryDeferredMetadataInputs ==
  {Omitted, Val(Null)} \cup FlagObjects({"isDeferred"})

QueryInput(fieldName, identifyingArgValue, isDeferred, metadata, slots) ==
  [fieldName |-> fieldName, identifyingArgValue |-> identifyingArgValue,
   isDeferred |-> isDeferred, name |-> Str("Q"), type |-> Str("Node"),
   metadata |-> metadata, children |-> slots[2], directives |-> slots[3]]

QueryInputs ==
  {QueryInput(f, v, Undefined, m, <<Omitted, Omitted, Omitted>>) :
     f \in FieldNames, v \in ArgValues, m \in QueryNameMetadataInputs}
    \cup {QueryInput(Str("viewer"), Null, d, m, <<Omitted, Omitted, Omitted>>) :
            d \in {Undefined, Bool(TRUE), Bool(FALSE), Num(1)},
            m \in QueryDeferredMetadataInputs}
    \cup {QueryInput(Str("viewer"), Null, Undefined, m, <<Omitted, Omitted, Omitted>>) :
            m \in QueryFlagMetadataInputs}
    \cup {QueryInput(f, Str("abc123"), Undefined, Omitted, sl) :
            f \in FieldNames, sl \in SlotInputs}
    \cup {QueryInput(Str(""), v, Undefined, Omitted, <<Omitted, Omitted, Omitted>>) :
            v \in {Null, Str("abc123")}}

\* values passed where any value may go
ValueInputs ==
  {Val(Undefined), Val(Null), Val(Num(42)), Val(Str("Field")), Val(Bool(TRUE)),
   Obj(NoProps), Obj([kind |-> Str("field")]), Obj([kind |-> Num(42)]),
   Obj([kind |-> Str("Field")]), Obj([kind |-> Str("Call")]), Arr(<<>>)}

CallInputs ==
  {[name |-> Str("first"), value |-> v, type |-> ty] :
     v \in {Val(Undefined), Val(Null), Val(Num(10)), Val(Str("abc123"))},
     ty \in {Undefined, Null, Str(""), Str("Int")}}

NameInputs == {Str("id"), Str("")}

\* what a caller may pass where the partial description goes, having none
NullishInputs == {Null, Undefined}

\* the constructors that take a partial description
PartialConstructors ==
  {"createField", "createFragment", "createMutation", "createQuery",
   "createSubscription"}

\* the smaller draws of SpecGet, SpecShare and SpecHash
NoSlots == <<Omitted, Omitted, Omitted>>
EmptySlots == <<Arr(<<>>), Arr(<<>>), Arr(<<>>)>>

SharedFieldInputs ==
  {FieldInput(Undefined, m, sl) :
     m \in {Omitted, Obj(NoProps)},
     sl \in {NoSlots, EmptySlots, <<Val(Null), Omitted, Arr(<<>>)>>}}

SharedFragmentInputs ==
  {FragmentInput(m, sl) : m \in {Omitted, Obj(NoProps)}, sl \in {NoSlots, EmptySlots}}

SharedOperationInputs ==
  {OperationInput(Omitted, sl) :
     sl \in {NoSlots, EmptySlots, <<Omitted, Val(Null), Arr(<<>>)>>}}

SharedQueryInputs ==
  {QueryInput(f, Str("abc123"), Undefined, Omitted, sl) :
     f \in FieldNames, sl \in {NoSlots, EmptySlots}}

SmallFieldInputs == {FieldInput(Undefined, Omitted, NoSlots)}
SmallFragmentInputs ==
  {FragmentInput(Omitted, NoSlots), FragmentInput(Obj([plural |-> Bool(TRUE)]), EmptySlots)}
SmallOperationInputs == {OperationInput(Omitted, NoSlots)}
SmallQueryInputs ==
  {QueryInput(Str(NODE), v, Undefined, Omitted, NoSlots) : v \in {Null, Str("abc123")}}
SmallValueInputs == {Val(Null), Obj([kind |-> Str("Fragment")])}
SmallCallInputs == {[name |-> Str("first"), value |-> Val(Num(10)), type |-> Undefined]}
SmallNameInputs == {Str("id")}

---------------------------------------------------------------------------
(* Actions: one per method of QueryBuilder *)

\* the caller keeps a result only while it holds fewer than MaxHeld nodes
CanKeep(keep) == keep => Cardinality(DOMAIN held) < MaxHeld

\* a value the caller passes: one it writes, a node it kept, or (last) the last result
Passed(inputs, last) ==
  inputs \cup {Val(Ref(a)) : a \in DOMAIN held}
         \cup (IF last /\ ret.value.t = "object" THEN {Val(ret.value)} ELSE {})

\* the heap a call starts from when opt is passed: what the caller reaches, opt included
Before(opt) == Collect(heap, Roots \cup ArgRefs(<<opt.value>>))

CreateBatchCallVariable(inputs, keep) ==
  /\ CanKeep(keep)
  /\ \E sourceQueryID \in inputs, jsonPath \in {Str("$.*.id")} :
       Call("createBatchCallVariable", <<sourceQueryID, jsonPath>>,
            createBatchCallVariable(State(Collect(heap, Roots)),
                                    sourceQueryID, jsonPath),
            keep)

CreateCall(inputs, keep) ==
  /\ CanKeep(keep)
  /\ \E p \in inputs :
       LET v == Given(Before(p.value), p.value)
       IN Call("createCall", <<p.name, v.ref, p.type>>,
               createCall(State(v.heap), p.name, v.ref, p.type), keep)

CreateCallValue(inputs, keep) ==
  /\ CanKeep(keep)
  /\ \E opt \in Passed(inputs, FALSE) :
       LET v == Given(Before(opt), opt)
       IN Call("createCallValue", <<v.ref>>,
               createCallValue(State(v.heap), v.ref), keep)

CreateCallVariable(inputs, keep) ==
  /\ CanKeep(keep)
  /\ \E callVariableName \in inputs :
       Call("createCallVariable", <<callVariableName>>,
            createCallVariable(State(Collect(heap, Roots)), callVariableName),
            keep)

CreateField(inputs, keep) ==
  /\ CanKeep(keep)
  /\ \E p \in inputs :
       LET partialField ==
             Partial(Collect(heap, Roots),
                     Key("fieldName", p.fieldName) @@ Key("type", p.type)
                       @@ Key("alias", p.alias),
                     p.metadata, p.calls, p.children, p.directives)
       IN Call("createField", <<partialField.ref>>,
               createField(State(partialField.heap), partialField.ref), keep)

CreateFragment(inputs, keep, limit) ==
  /\ CanKeep(keep)
  /\ fragmentCalls < limit
  /\ \E p \in inputs :
       LET partialFragment ==
             Partial(Collect(heap, Roots),
                     Key("name", p.name) @@ Key("type", p.type),
                     p.metadata, Omitted, p.children, p.directives)
       IN Call("createFragment", <<partialFragment.ref>>,
               createFragment(State(partialFragment.heap), partialFragment.ref),
               keep)

CreateFragmentReference(inputs, keep) ==
  /\ CanKeep(keep)
  /\ \E opt \in Passed(inputs, FALSE) :
       LET v == Given(Before(opt), opt)
       IN Call("createFragmentReference", <<v.ref>>,
               createFragmentReference(State(v.heap), v.ref), keep)

CreateMutation(inputs, keep) ==
  /\ CanKeep(keep)
  /\ \E p \in inputs :
       LET partialMutation ==
             Partial(Collect(heap, Roots),
                     Key("name", p.name) @@ Key("responseType", p.responseType),
                     p.metadata, p.calls, p.children, p.directives)
       IN Call("createMutation", <<partialMutation.ref>>,
               createMutation(State(partialMutation.heap), partialMutation.ref),
               keep)

CreateQuery(inputs, keep) ==
  /\ CanKeep(keep)
  /\ \E p \in inputs :
       LET partialQuery ==
             Partial(Collect(heap, Roots),
                     Key("fieldName", p.fieldName)
                       @@ Key("identifyingArgValue", p.identifyingArgValue)
                       @@ Key("isDeferred", p.isDeferred)
                       @@ Key("name", p.name) @@ Key("type", p.type),
                     p.metadata, Omitted, p.children, p.directives)
       IN Call("createQuery", <<partialQuery.ref>>,
               createQuery(State(partialQuery.heap), partialQuery.ref), keep)

CreateSubscription(inputs, keep) ==
  /\ CanKeep(keep)
  /\ \E p \in inputs :
       LET partialSubscription ==
             Partial(Collect(heap, Roots),
                     Key("name", p.name) @@ Key("responseType", p.responseType),
                     p.metadata, p.calls, p.children, p.directives)
       IN Call("createSubscription", <<partialSubscription.ref>>,
               createSubscription(State(partialSubscription.heap),
                                  partialSubscription.ref),
               keep)

\* createX(null), createX(undefined): a constructor called without a description
CreateFromNullish(inputs, limit) ==
  \E method \in PartialConstructors, partial \in inputs :
    /\ method = "createFragment" => fragmentCalls < limit
    /\ LET s == State(Collect(heap, Roots))
       IN Call(method, <<partial>>,
               CASE method = "createField" -> createField(s, partial)
                 [] method = "createFragment" -> createFragment(s, partial)
                 [] method = "createMutation" -> createMutation(s, partial)
                 [] method = "createQuery" -> createQuery(s, partial)
                 [] method = "createSubscription" -> createSubscription(s, partial),
               FALSE)

\* QueryBuilder.getX(node), for X any of the ten kinds
Get(inputs) ==
  \E X \in Kinds, opt \in Passed(inputs, TRUE) :
    LET v == Given(Before(opt), opt)
    IN Call("get" \o X, <<v.ref>>, Invoke(State(v.heap), "get" \o X, v.ref), FALSE)

\* the constructors, over every shape of their arguments and without any
Next ==
  \/ CreateBatchCallVariable(NameInputs, FALSE)
  \/ CreateCall(CallInputs, FALSE)
  \/ CreateCallValue(ValueInputs, FALSE)
  \/ CreateCallVariable(NameInputs, FALSE)
  \/ CreateField(FieldInputs, FALSE)
  \/ CreateFragment(FragmentInputs, FALSE, MaxFragments)
  \/ CreateFragmentReference(ValueInputs, FALSE)
  \/ CreateMutation(OperationInputs, FALSE)
  \/ CreateQuery(QueryInputs, FALSE)
  \/ CreateSubscription(OperationInputs, FALSE)
  \/ CreateFromNullish(NullishInputs, MaxFragments)

Spec == Init /\ [][Next]_vars

\* every method, the accessors over every shape of value and over the last result
NextGet ==
  \/ CreateBatchCallVariable(SmallNameInputs, FALSE)
  \/ CreateCall(SmallCallInputs, FALSE)
  \/ CreateCallValue(SmallValueInputs, FALSE)
  \/ CreateCallVariable(SmallNameInputs, FALSE)
  \/ CreateField(SmallFieldInputs, FALSE)
  \/ CreateFragment(SmallFragmentInputs, FALSE, MaxFragments)
  \/ CreateFragmentReference(SmallValueInputs, FALSE)
  \/ CreateMutation(SmallOperationInputs, FALSE)
  \/ CreateQuery(SmallQueryInputs, FALSE)
  \/ CreateSubscription(SmallOperationInputs, FALSE)
  \/ Get(ValueInputs)

SpecGet == Init /\ [][NextGet]_vars

\* the constructors that default their slots, every result kept
NextShare ==
  \/ CreateField(SharedFieldInputs, TRUE)
  \/ CreateFragment(SharedFragmentInputs, TRUE, MaxHeld)
  \/ CreateMutation(SharedOperationInputs, TRUE)
  \/ CreateQuery(SharedQueryInputs, TRUE)
  \/ CreateSubscription(SharedOperationInputs, TRUE)

SpecShare == Init /\ [][NextShare]_vars

\* every method, over many fragments
NextHash ==
  \/ CreateBatchCallVariable(SmallNameInputs, FALSE)
  \/ CreateCall(SmallCallInputs, FALSE)
  \/ CreateCallValue(SmallValueInputs, FALSE)
  \/ CreateCallVariable(SmallNameInputs, FALSE)
  \/ CreateField(SmallFieldInputs, FALSE)
  \/ CreateFragment(SmallFragmentInputs, FALSE, MaxHashes)
  \/ CreateFragmentReference(SmallValueInputs, FALSE)
  \/ CreateMutation(SmallOperationInputs, FALSE)
  \/ CreateQuery(SmallQueryInputs, FALSE)
  \/ CreateSubscription(SmallOperationInputs, FALSE)
  \/ Get({Val(Null)})

SpecHash == Init /\ [][NextHash]_vars

---------------------------------------------------------------------------
(* Properties.  They read the last call: its argument object is still on   *)
(* the heap when the call has returned.                                    *)

\* the argument object's key k, and key k of the metadata it gives (undefined
\* when it gives none)
In(k) == Prop(heap, ret.args[1], k)
InMeta(k) ==
  IF LooseEqualsNull(In("metadata")) THEN Undefined
  ELSE Prop(heap, In("metadata"), k)

\* the returned node's key k, and key k of its metadata
Out(k) == Prop(heap, ret.value, k)
OutMeta(k) == Prop(heap, Out("metadata"), k)

IsNullish(v) == v = Undefined \/ v = Null
IsBoolean(v) == v = Bool(TRUE) \/ v = Bool(FALSE)

Returned(method) == ret.method = method /\ ret.error = ""

\* the identifying argument name a createQuery call resolves; Undefined for none
ResolvedName ==
  IF ~IsNullish(InMeta("identifyingArgName")) THEN InMeta("identifyingArgName")
  ELSE IF isNodeRootCall(In("fieldName")) THEN Str(ID)
  ELSE Undefined

\* the last call was given a partial description, an object
Described == ret.args # <<>> /\ ret.args[1].t = "object"

\* C1: createQuery, given a partial description, fails fatally exactly when an
\* identifying argument name was resolved and identifyingArgValue is null or
\* undefined; every other call returns a Query node.
C1_QueryFailsIffNameWithoutValue ==
  (ret.method = "createQuery" /\ Described) =>
    /\ (ret.error # "") <=>
         (~IsNullish(ResolvedName) /\ IsNullish(In("identifyingArgValue")))
    /\ ret.error \in {"", "Invariant Violation"}
    /\ ret.error = "" => Out("kind") = Str("Query")

\* C1 witness: both sides: a named argument without a value has failed
C1_Witness ==
  /\ ret.method = "createQuery"
  /\ ret.error = "Invariant Violation"
  /\ In("fieldName") = Str("viewer")
  /\ InMeta("identifyingArgName") = Str("username")
  /\ In("identifyingArgValue") = Undefined

\* the elements of the returned node's calls
OutCalls == heap[Out("calls").n].elems

\* C2: a successful createQuery takes the name from metadata first, then from
\* the root call; with a name the calls are exactly one Call node of that
\* name, the given value and a null type, and metadata.identifyingArgName is
\* the name; without a name the calls are empty.
C2_QueryIdentifyingCall ==
  Returned("createQuery") =>
    IF ~IsNullish(ResolvedName)
    THEN /\ Len(OutCalls) = 1
         /\ Prop(heap, OutCalls[1], "kind") = Str("Call")
         /\ Prop(heap, OutCalls[1], "name") = ResolvedName
         /\ Prop(heap, OutCalls[1], "value") = In("identifyingArgValue")
         /\ Prop(heap, Prop(heap, OutCalls[1], "metadata"), "type") = Null
         /\ OutMeta("identifyingArgName") = ResolvedName
    ELSE OutCalls = <<>>

\* C2 witness: a root call whose metadata names another argument
C2_Witness ==
  /\ Returned("createQuery")
  /\ In("fieldName") = Str(NODE)
  /\ InMeta("identifyingArgName") = Str("username")
  /\ Len(OutCalls) = 1
  /\ Prop(heap, OutCalls[1], "name") = Str("username")

\* the keys of the returned node's metadata
OutMetaKeys == DOMAIN heap[Out("metadata").n].props

QueryFlags == {"isAbstract", "isPlural"}
FragmentFlags == {"isAbstract", "plural"}

\* C6: the metadata of a node made by createField, createFragment,
\* createQuery, createMutation or createSubscription has exactly the keys of
\* its kind, and every boolean flag in it is true or false.
C6_MetadataKeySet ==
  /\ Returned("createField") =>
       /\ OutMetaKeys = {"inferredRootCallName", "inferredPrimaryKey"} \cup FieldFlags
       /\ \A f \in FieldFlags : IsBoolean(OutMeta(f))
  /\ Returned("createFragment") =>
       /\ OutMetaKeys = FragmentFlags
       /\ \A f \in FragmentFlags : IsBoolean(OutMeta(f))
  /\ Returned("createQuery") =>
       /\ OutMetaKeys = {"identifyingArgName", "identifyingArgType"} \cup QueryFlags
       /\ \A f \in QueryFlags : IsBoolean(OutMeta(f))
  /\ (Returned("createMutation") \/ Returned("createSubscription")) =>
       OutMetaKeys = {"inputType"}

\* C6 witness: a flag given as a truthy string has become true
C6_Witness ==
  /\ Returned("createField")
  /\ InMeta("isPlural") = Str("yes")
  /\ OutMeta("isPlural") = Bool(TRUE)

\* C7 as claimed: no metadata value of a constructed node is undefined.
C7_NoUndefinedMetadata ==
  (ret.error = "" /\ ret.method \in
     {"createField", "createFragment", "createQuery", "createMutation",
      "createSubscription"}) =>
    \A k \in OutMetaKeys : OutMeta(k) # Undefined

\* the boolean flags and the string keys of the metadata the last call made
FlagsOf(method) ==
  CASE method = "createField" -> FieldFlags
    [] method = "createFragment" -> FragmentFlags
    [] method = "createQuery" -> QueryFlags
    [] OTHER -> {}

StringsOf(method) ==
  CASE method = "createField" -> {"inferredRootCallName", "inferredPrimaryKey"}
    [] method = "createQuery" -> {"identifyingArgType"}
    [] method \in {"createMutation", "createSubscription"} -> {"inputType"}
    [] OTHER -> {}

\* C7, amended: a missing boolean flag is false, never undefined, and the type
\* of a Call without one is null; the string-valued metadata is passed through
\* as given, so it is undefined when missing (identifyingArgName is the
\* resolved name, undefined or null when none is resolved).
C7_FlagsDefaultStringsPassThrough ==
  /\ ret.error = "" =>
       /\ \A f \in FlagsOf(ret.method) :
            /\ OutMeta(f) # Undefined
            /\ InMeta(f) = Undefined => OutMeta(f) = Bool(FALSE)
       /\ \A k \in StringsOf(ret.method) : OutMeta(k) = InMeta(k)
  /\ Returned("createQuery") =>
       OutMeta("identifyingArgName") =
         (IF IsNullish(ResolvedName) THEN InMeta("identifyingArgName")
          ELSE ResolvedName)
  /\ (Returned("createCall") /\ ret.args[3] = Undefined) => OutMeta("type") = Null

\* C7 witness: a mutation made without metadata has an undefined inputType
C7_Witness ==
  /\ Returned("createMutation")
  /\ In("metadata") = Undefined
  /\ "inputType" \in OutMetaKeys
  /\ OutMeta("inputType") = Undefined

\* C9: isDeferred of a Query is the boolean OR of the truthiness of the
\* isDeferred argument and of metadata.isDeferred, and is no key of the
\* node's metadata.
C9_QueryIsDeferred ==
  Returned("createQuery") =>
    /\ Out("isDeferred") =
         Bool(ToBoolean(In("isDeferred")) \/ ToBoolean(InMeta("isDeferred")))
    /\ "isDeferred" \notin OutMetaKeys

\* C9 witness: deferred through the metadata flag alone, given as a string
C9_Witness ==
  /\ Returned("createQuery")
  /\ In("isDeferred") = Undefined
  /\ InMeta("isDeferred") = Str("yes")
  /\ Out("isDeferred") = Bool(TRUE)

---------------------------------------------------------------------------
(* Accessors (SpecGet) *)

\* the kinds that have an accessor
AccessorKinds == Kinds \ {"Call", "CallValue"}

\* v is an object whose kind key holds exactly the string X
IsObjectOfKind(v, X) ==
  /\ v.t = "object"
  /\ "kind" \in DOMAIN heap[v.n].props
  /\ heap[v.n].props["kind"] = Str(X)

\* C3: every accessor getX returns its argument itself when that is a non-null
\* object whose kind is exactly X, and undefined for every other value; it
\* never throws.
C3_AccessorNarrows ==
  \A X \in AccessorKinds :
    ret.method = "get" \o X =>
      /\ ret.error = ""
      /\ ret.value = (IF IsObjectOfKind(ret.args[1], X) THEN ret.args[1] ELSE Undefined)

\* C3 witness: getField of a Query node made by createQuery is undefined
C3_Witness ==
  /\ ret.method = "getField"
  /\ IsObjectOfKind(ret.args[1], "Query")
  /\ Prop(heap, ret.args[1], "fieldName") = Str(NODE)
  /\ ret.value = Undefined

\* the step from createX having returned a node to getX called on that node:
\* the argument is the node's address, and the node is still what is there
\* (the address of a reclaimed node may be given to a new object)
RoundTrip(X) ==
  /\ ret.method = "create" \o X
  /\ ret.error = ""
  /\ ret'.method = "get" \o X
  /\ ret'.args = <<ret.value>>
  /\ heap'[ret.value.n] = heap[ret.value.n]

\* C4 as claimed: for each of the ten kinds X, getX(createX(args)) returns
\* the node createX returned.
C4_RoundTripAllKinds ==
  [][\A X \in Kinds : RoundTrip(X) => (ret'.error = "" /\ ret'.value = ret.value)]_vars

\* C4, amended: every kind has a constructor; the eight kinds other than Call
\* and CallValue have an accessor, and getX(createX(args)) returns the node
\* createX returned; there is no getCall and no getCallValue, and calling
\* either is a TypeError.
C4_RoundTripAccessorKinds ==
  /\ \A X \in Kinds : ("create" \o X) \in QueryBuilder
  /\ \A X \in Kinds : ("get" \o X) \in QueryBuilder <=> X \in AccessorKinds
  /\ [][\A X \in Kinds :
          RoundTrip(X) =>
            IF X \in AccessorKinds
            THEN ret'.error = "" /\ ret'.value = ret.value
            ELSE ret'.error = "TypeError"]_vars

\* C4 witness: getFragment has returned the fragment createFragment made
C4_Witness ==
  /\ ret.method = "getFragment"
  /\ ret.error = ""
  /\ ret.value = ret.args[1]
  /\ Prop(heap, ret.value, "hash") = Str("_0")

---------------------------------------------------------------------------
(* Shared empty singletons (SpecShare) *)

\* the slots each constructor defaults
Defaulted(method) ==
  IF method \in {"createField", "createMutation", "createSubscription"}
  THEN {"calls", "children", "directives"}
  ELSE {"children", "directives"}

SingletonOf(slot) ==
  CASE slot = "calls" -> Ref(EMPTY_CALLS)
    [] slot = "children" -> Ref(EMPTY_CHILDREN)
    [] slot = "directives" -> Ref(EMPTY_DIRECTIVES)
    [] slot = "metadata" -> Ref(EMPTY_METADATA)

\* the kept node a was made from an argument object without this key
Lacks(a, slot) == Prop(heap, held[a].args[1], slot) = Undefined

\* the kept node a is a Query for which no identifying argument was resolved
UnnamedQuery(a) ==
  /\ held[a].method = "createQuery"
  /\ IsNullish(Prop(heap, Prop(heap, Ref(a), "metadata"), "identifyingArgName"))

\* C8 as claimed: across any two kept nodes made without calls, children,
\* directives or metadata, the node's value for it is the same object, the
\* shared empty singleton; so are the calls of two queries with no
\* identifying argument.
C8_SharedEmptyAllSlots ==
  \A a \in DOMAIN held, b \in DOMAIN held :
    /\ \A slot \in {"children", "directives", "metadata"} \cup
                   (Defaulted(held[a].method) \cap Defaulted(held[b].method)) :
         (Lacks(a, slot) /\ Lacks(b, slot)) =>
           /\ Prop(heap, Ref(a), slot) = Prop(heap, Ref(b), slot)
           /\ Prop(heap, Ref(a), slot) = SingletonOf(slot)
    /\ (UnnamedQuery(a) /\ UnnamedQuery(b)) =>
         /\ Prop(heap, Ref(a), "calls") = Prop(heap, Ref(b), "calls")
         /\ Prop(heap, Ref(a), "calls") = Ref(EMPTY_CALLS)

\* C8, amended: calls (createField, createMutation, createSubscription),
\* children and directives (all five constructors), when omitted, are the
\* shared empty singleton of that slot, the same object across any two nodes.
\* The metadata of a node is always an object of its own, never the shared
\* empty metadata, and the calls of a Query with no identifying argument are an
\* empty array of its own, not the shared empty calls.
C8_SharedEmptySlots ==
  \A a \in DOMAIN held, b \in DOMAIN held :
    /\ \A slot \in Defaulted(held[a].method) \cap Defaulted(held[b].method) :
         (Lacks(a, slot) /\ Lacks(b, slot)) =>
           /\ Prop(heap, Ref(a), slot) = Prop(heap, Ref(b), slot)
           /\ Prop(heap, Ref(a), slot) = SingletonOf(slot)
    /\ Prop(heap, Ref(a), "metadata").n \notin Singletons
    /\ a # b => Prop(heap, Ref(a), "metadata") # Prop(heap, Ref(b), "metadata")
    /\ UnnamedQuery(a) =>
         /\ heap[Prop(heap, Ref(a), "calls").n] = Array(<<>>)
         /\ Prop(heap, Ref(a), "calls").n \notin Singletons
         /\ (a # b /\ UnnamedQuery(b)) =>
              Prop(heap, Ref(a), "calls") # Prop(heap, Ref(b), "calls")

\* C8 witness: a field and a query, both made without children and without
\* metadata, share their children
C8_Witness ==
  \E a \in DOMAIN held, b \in DOMAIN held :
    /\ held[a].method = "createField"
    /\ held[b].method = "createQuery"
    /\ UnnamedQuery(b)
    /\ Lacks(a, "children") /\ Lacks(b, "children")
    /\ Lacks(a, "metadata") /\ Lacks(b, "metadata")
    /\ Prop(heap, Ref(a), "children") = Prop(heap, Ref(b), "children")

---------------------------------------------------------------------------
(* The fragment hash counter (SpecHash) *)

Base62Digits == {BASE62[i] : i \in DOMAIN BASE62}

\* '_' followed by one or two base-62 digits
ClientHashes ==
  {"_" \o a : a \in Base62Digits}
    \cup {"_" \o a \o b : a \in Base62Digits, b \in Base62Digits}

\* C5: no two createFragment calls receive the same hash, and every hash is
\* '_' followed only by base-62 digits.
C5_HashesDistinct ==
  /\ \A i \in DOMAIN hashes, j \in DOMAIN hashes : i # j => hashes[i] # hashes[j]
  /\ \A i \in DOMAIN hashes : hashes[i] \in ClientHashes

\* C5 witness: sixty-three fragments made, the last with a two-digit hash
C5_Witness ==
  /\ Len(hashes) = 63
  /\ hashes[1] = "_0"
  /\ hashes[63] = "_10"
  /\ ret.method = "createFragment"

\* C10: the counter is the number of createFragment calls made; the n-th call
\* receives '_' + base62(n-1), the first '_0'; every other call, a failing
\* createQuery included, leaves the counter as it was, and nothing lowers it.
C10_CounterCountsFragments ==
  /\ clientFragmentCount = 0
  /\ [][/\ clientFragmentCount' = fragmentCalls'
        /\ clientFragmentCount' >= clientFragmentCount
        /\ IF ret'.method = "createFragment"
           THEN /\ clientFragmentCount' = clientFragmentCount + 1
                /\ Prop(heap', ret'.value, "hash") = Str("_" \o base62(fragmentCalls))
                /\ fragmentCalls = 0 => Prop(heap', ret'.value, "hash") = Str("_0")
           ELSE clientFragmentCount' = clientFragmentCount]_vars

\* C10 witness: a createQuery that failed after two fragments left the counter at 2
C10_Witness ==
  /\ ret.method = "createQuery"
  /\ ret.error = "Invariant Violation"
  /\ fragmentCalls = 2
  /\ clientFragmentCount = 2
  /\ hashes = <<"_0", "_1">>

====
